---- MODULE Spec2Model ----
(***************************************************************************)
(* Half-edge topology layer of three-use (createHalfEdgeTopology).         *)
(* The engine caches references to the geometry's position and index       *)
(* arrays, owns one adjacency table (HalfEdgeMap) and answers connectivity *)
(* queries and traversals over them.                                       *)
(***************************************************************************)
EXTENDS Integers, Sequences, FiniteSets, TLC

\* ------------------------------------------------------------------ bounds
MaxFaces == 3
MaxVerts == 4
MaxRebuilds == 2
MaxEdits == 1

\* The triangles callers put into index buffers: a fan around vertex 0 and a
\* triangle that repeats a vertex.
TriangleVocabulary ==
    { <<0, 1, 2>>, <<0, 2, 3>>, <<0, 3, 1>>, <<0, 0, 1>> }

Triangles == { t \in TriangleVocabulary : \A i \in 1..3 : t[i] < MaxVerts }

\* ------------------------------------------------------------- JS values
\* Reading a typed array outside its bounds yields undefined.
undefined == -2

\* A quotient of two lengths, kept exact: <<numerator, denominator>>.
Quot(n, d) == <<n, d>>
IsInteger(q) == q[1] % q[2] = 0
\* i < q for an integer i
Below(i, q) == i * q[2] < q[1]
\* the integers i >= 0 with i < q (the values a `for (i = 0; i < q; i++)` takes)
LoopRange(q) == { i \in 0..q[1] : Below(i, q) }

\* arr[i] with JavaScript's 0-based indexing
At(arr, i) == IF i \in 0..(Len(arr) - 1) THEN arr[i + 1] ELSE undefined

\* Array.prototype.indexOf / includes on a 3-element array
indexOf(arr, x) ==
    IF \E i \in 0..(Len(arr) - 1) : arr[i + 1] = x
    THEN CHOOSE i \in 0..(Len(arr) - 1) :
            /\ arr[i + 1] = x
            /\ \A j \in 0..(i - 1) : arr[j + 1] # x
    ELSE -1
includes(arr, x) == \E i \in 1..Len(arr) : arr[i] = x

\* Set.prototype.add on an insertion-ordered Set, kept as a sequence
SetAdd(s, x) == IF includes(s, x) THEN s ELSE Append(s, x)

Flatten3(tris) ==
    [i \in 1..(3 * Len(tris)) |-> tris[((i - 1) \div 3) + 1][((i - 1) % 3) + 1]]

\* --------------------------------------------------------------- state
VARIABLES
    geomPos,    \* geometry.attributes.position.array (the caller's live array)
    geomIdx,    \* geometry.index: [present, arr]
    vertices,   \* the engine's cached reference to the position array
    indices,    \* the engine's cached reference to the index array, or null
    data,       \* halfEdgeMap: (face, edge) -> sibling (face, edge) or (-1, -1)
    edits,      \* caller mutations of the geometry since the last build
    rebuilds,   \* update() calls in a row since construction or the last mutation
    pc,         \* "idle" | "walk" | "done"
    walk,       \* locals of a walkAroundVertex call in progress
    ret         \* the last call: operation, arguments, outcome

vars == <<geomPos, geomIdx, vertices, indices, data, edits, rebuilds, pc, walk, ret>>
geometry == <<geomPos, geomIdx>>
engine == <<vertices, indices, data>>

\* A reference to an array: either the geometry's current array (live) or an
\* array the geometry no longer holds (detached, with its contents), or null.
LiveRef == [kind |-> "live", arr |-> <<>>]
NullRef == [kind |-> "null", arr |-> <<>>]
Detached(a) == [kind |-> "detached", arr |-> a]

verticesArray == IF vertices.kind = "live" THEN geomPos ELSE vertices.arr
indicesArray ==
    IF indices.kind = "live" THEN geomIdx.arr ELSE indices.arr

\* an optional result: null, or a value
null == <<>>
Some(x) == <<x>>

\* ------------------------------------------------ HalfEdgeMap (three-bvh-csg)
\* The adjacency builder: every (face, edge slot) descriptor is grouped by the
\* unordered pair of vertex indices of its edge; within a group the descriptors
\* are paired consecutively in discovery order, an unmatched one is boundary.
triCount(pos, idx) ==
    IF idx.present THEN Len(idx.arr) \div 3 ELSE (Len(pos) \div 3) \div 3

triangle(idx, f) ==
    IF idx.present
    THEN <<idx.arr[3 * f + 1], idx.arr[3 * f + 2], idx.arr[3 * f + 3]>>
    ELSE <<3 * f, 3 * f + 1, 3 * f + 2>>

HalfEdges(n) == (0..(n - 1)) \X (0..2)

\* the unordered vertex-index pair of an edge, smaller index first
edgeKey(idx, h) ==
    LET t == triangle(idx, h[1])
        a == t[h[2] + 1]
        b == t[((h[2] + 1) % 3) + 1]
    IN  IF a <= b THEN <<a, b>> ELSE <<b, a>>

discoveryOrder(h) == 3 * h[1] + h[2]

\* keys: the key of every descriptor.  Among the descriptors with h's key, h
\* is paired with the next one when an even number precede it, with the
\* previous one otherwise.
sibling(keys, h) ==
    LET group == { x \in DOMAIN keys : keys[x] = keys[h] }
        before == { x \in group : discoveryOrder(x) < discoveryOrder(h) }
        after == { x \in group : discoveryOrder(x) > discoveryOrder(h) }
    IN  IF Cardinality(before) % 2 = 0
        THEN IF after = {} THEN <<-1, -1>>
             ELSE CHOOSE x \in after :
                     \A y \in after : discoveryOrder(x) <= discoveryOrder(y)
        ELSE CHOOSE x \in before :
                \A y \in before : discoveryOrder(y) <= discoveryOrder(x)

updateFrom(pos, idx) ==
    LET keys == [h \in HalfEdges(triCount(pos, idx)) |-> edgeKey(idx, h)]
    IN  [h \in DOMAIN keys |-> sibling(keys, h)]

getSiblingTriangleIndex(triIndex, edgeIndex) ==
    IF <<triIndex, edgeIndex>> \in DOMAIN data
    THEN data[<<triIndex, edgeIndex>>][1] ELSE -1

getSiblingEdgeIndex(triIndex, edgeIndex) ==
    IF <<triIndex, edgeIndex>> \in DOMAIN data
    THEN data[<<triIndex, edgeIndex>>][2] ELSE -1

\* ------------------------------------------------------- construction
\* construction that leaves out the first halfEdgeMap.updateFrom(geometry)
createHalfEdgeTopology_unbuilt(pos, idx) ==
    [ vertices |-> LiveRef,
      indices  |-> IF idx.present THEN LiveRef ELSE NullRef,
      data     |-> [h \in HalfEdges(triCount(pos, idx)) |-> <<-1, -1>>] ]

\* construction that copies the index array instead of keeping the reference
createHalfEdgeTopology_copy(pos, idx) ==
    [ vertices |-> LiveRef,
      indices  |-> IF idx.present THEN Detached(idx.arr) ELSE NullRef,
      data     |-> updateFrom(pos, idx) ]

\* The engine's closure state right after createHalfEdgeTopology(geometry).
createHalfEdgeTopology(pos, idx) ==
    [ vertices |-> LiveRef,
      indices  |-> IF idx.present THEN LiveRef ELSE NullRef,
      data     |-> updateFrom(pos, idx) ]

\* ------------------------------------------------------ utility methods
getVertexCount == Quot(Len(verticesArray), 3)

getFaceCount ==
    IF indices.kind # "null"
    THEN Quot(Len(indicesArray), 3)
    ELSE Quot(Len(verticesArray), 9)

\* --------------------------------------------------------- face queries
getFaceVertices(faceIndex) ==
    IF indices.kind = "null"
    THEN <<faceIndex * 3, faceIndex * 3 + 1, faceIndex * 3 + 2>>
    ELSE << At(indicesArray, faceIndex * 3),
            At(indicesArray, faceIndex * 3 + 1),
            At(indicesArray, faceIndex * 3 + 2) >>

siblingFaces(faceIndex) ==
    [e \in 1..3 |-> getSiblingTriangleIndex(faceIndex, e - 1)]

getFaceNeighbors(faceIndex) ==
    LET isFace(x) == x # -1
    IN  SelectSeq(siblingFaces(faceIndex), isFace)

getFaceEdges(faceIndex) ==
    << <<faceIndex, 0>>, <<faceIndex, 1>>, <<faceIndex, 2>> >>

isFaceOnBoundary(faceIndex) ==
    \E edgeIndex \in 0..2 : getSiblingTriangleIndex(faceIndex, edgeIndex) = -1

walkAroundFace(faceIndex) ==
    [e \in 1..3 |->
        LET neighbor == getSiblingTriangleIndex(faceIndex, e - 1)
        IN  IF neighbor # -1 THEN Some(neighbor) ELSE null]

\* --------------------------------------------------------- edge queries
getEdgeFaces(faceIndex, edgeIndex) ==
    LET siblingFace == getSiblingTriangleIndex(faceIndex, edgeIndex)
    IN  IF siblingFace # -1 THEN <<faceIndex, siblingFace>> ELSE <<faceIndex>>

getEdgeVertices(faceIndex, edgeIndex) ==
    LET faceVertices == getFaceVertices(faceIndex)
    IN  <<At(faceVertices, edgeIndex), At(faceVertices, (edgeIndex + 1) % 3)>>

\* the sibling's face with the caller's own edge slot
getOppositeHalfEdge_ownSlot(faceIndex, edgeIndex) ==
    LET siblingFace == getSiblingTriangleIndex(faceIndex, edgeIndex)
        siblingEdge == getSiblingEdgeIndex(faceIndex, edgeIndex)
    IN  IF siblingFace # -1 /\ siblingEdge # -1
        THEN Some(<<siblingFace, edgeIndex>>)
        ELSE null

getOppositeHalfEdge(faceIndex, edgeIndex) ==
    LET siblingFace == getSiblingTriangleIndex(faceIndex, edgeIndex)
        siblingEdge == getSiblingEdgeIndex(faceIndex, edgeIndex)
    IN  IF siblingFace # -1 /\ siblingEdge # -1
        THEN Some(<<siblingFace, siblingEdge>>)
        ELSE null

\* the sibling edge slot compared with <= 0 instead of the sibling face with -1
isEdgeOnBoundary_notPositive(faceIndex, edgeIndex) ==
    getSiblingEdgeIndex(faceIndex, edgeIndex) <= 0

isEdgeOnBoundary(faceIndex, edgeIndex) ==
    getSiblingTriangleIndex(faceIndex, edgeIndex) = -1

\* ------------------------------------------------------- vertex queries
\* the elements of a finite set of integers in increasing order
Ascending(S) ==
    [i \in 1..Cardinality(S) |->
        CHOOSE x \in S : Cardinality({ y \in S : y < x }) = i - 1]

getVertexIncidentFaces(vertexIndex) ==
    LET bound == IF indices.kind = "null"
                 THEN Quot(Len(verticesArray), 9)
                 ELSE Quot(Len(indicesArray), 3)
    IN  Ascending({ i \in LoopRange(bound) :
                      includes(getFaceVertices(i), vertexIndex) })

\* the loop body of getVertexNeighbors for one incident face
addNeighbors(neighbors, faceIndex, vertexIndex) ==
    LET faceVertices == getFaceVertices(faceIndex)
        vertexPos == indexOf(faceVertices, vertexIndex)
        isOther(i) == i # vertexPos
        others == SelectSeq(<<0, 1, 2>>, isOther)
    IN  IF vertexPos # -1
        THEN SetAdd(SetAdd(neighbors, faceVertices[others[1] + 1]),
                    faceVertices[others[2] + 1])
        ELSE neighbors

RECURSIVE neighborsOver(_, _, _)
neighborsOver(incidentFaces, vertexIndex, neighbors) ==
    IF incidentFaces = <<>> THEN neighbors
    ELSE neighborsOver(Tail(incidentFaces), vertexIndex,
                       addNeighbors(neighbors, Head(incidentFaces), vertexIndex))

getVertexNeighbors(vertexIndex) ==
    neighborsOver(getVertexIncidentFaces(vertexIndex), vertexIndex, <<>>)

\* the loop body of getVertexIncidentEdges for one incident face
addEdges(edges, faceIndex, vertexIndex) ==
    LET faceVertices == getFaceVertices(faceIndex)
        vertexPos == indexOf(faceVertices, vertexIndex)
    IN  IF vertexPos # -1
        THEN edges \o << <<faceIndex, vertexPos>>,
                         <<faceIndex, (vertexPos + 2) % 3>> >>
        ELSE edges

RECURSIVE edgesOver(_, _, _)
edgesOver(incidentFaces, vertexIndex, edges) ==
    IF incidentFaces = <<>> THEN edges
    ELSE edgesOver(Tail(incidentFaces), vertexIndex,
                   addEdges(edges, Head(incidentFaces), vertexIndex))

getVertexIncidentEdges(vertexIndex) ==
    edgesOver(getVertexIncidentFaces(vertexIndex), vertexIndex, <<>>)

getVertexValence(vertexIndex) == Len(getVertexNeighbors(vertexIndex))

\* ----------------------------------------------------- findShortestPath
\* the entries pushed for the neighbors of a dequeued vertex, in order
RECURSIVE pushNeighbors(_, _, _, _)
pushNeighbors(queue, neighbors, path, visited) ==
    IF neighbors = <<>> THEN queue
    ELSE pushNeighbors(
            IF Head(neighbors) \notin visited
            THEN Append(queue, [vertex |-> Head(neighbors),
                                path   |-> Append(path, Head(neighbors))])
            ELSE queue,
            Tail(neighbors), path, visited)

\* queue.pop() in place of queue.shift(): the search goes depth first
shift_pop(queue) ==
    [item |-> queue[Len(queue)], rest |-> SubSeq(queue, 1, Len(queue) - 1)]

\* queue.shift(): the entry taken and the queue left
shift(queue) == [item |-> Head(queue), rest |-> Tail(queue)]

RECURSIVE searchLoop(_, _, _)
searchLoop(queue, visited, endVertex) ==
    IF Len(queue) = 0 THEN null
    ELSE LET taken == shift(queue)
             vertex == taken.item.vertex
             path == taken.item.path
         IN  IF vertex \in visited
             THEN searchLoop(taken.rest, visited, endVertex)
             ELSE IF vertex = endVertex
                  THEN Some(path)
                  ELSE searchLoop(
                          pushNeighbors(taken.rest, getVertexNeighbors(vertex),
                                        path, visited \cup {vertex}),
                          visited \cup {vertex}, endVertex)

findShortestPath(startVertex, endVertex) ==
    IF startVertex = endVertex
    THEN Some(<<startVertex>>)
    ELSE searchLoop(<< [vertex |-> startVertex, path |-> <<startVertex>>] >>,
                    {}, endVertex)

\* ------------------------------------------------------------- inputs
TriangleLists == UNION { [1..n -> Triangles] : n \in 0..MaxFaces }

maxIndex(tris) ==
    IF tris = <<>> THEN -1
    ELSE CHOOSE m \in { tris[i][j] : i \in 1..Len(tris), j \in 1..3 } :
            \A i \in 1..Len(tris), j \in 1..3 : tris[i][j] <= m

zeros(n) == [i \in 1..n |-> 0]

FaceArgs == 0..MaxFaces
EdgeArgs == 0..3
VertexArgs == 0..MaxVerts
StartFaceArgs == FaceArgs \cup {undefined}

NoCall == [op |-> "none", args |-> <<>>, status |-> "ok", value |-> <<>>]
NoWalk == [ vertexIndex |-> 0, incidentFaces |-> <<>>, visited |-> {},
            orderedFaces |-> <<>>, currentFace |-> 0 ]

\* ---------------------------------------------------------------- Init
\* The caller builds a geometry (indexed or not) and constructs the engine.
Init ==
    /\ \E nv \in 0..MaxVerts, withIndex \in BOOLEAN, tris \in TriangleLists :
          /\ withIndex => maxIndex(tris) < nv
          /\ ~withIndex => tris = <<>>
          /\ geomPos = zeros(3 * nv)
          /\ geomIdx = [present |-> withIndex, arr |-> Flatten3(tris)]
    /\ \E created \in {createHalfEdgeTopology(geomPos, geomIdx)} :
          /\ vertices = created.vertices
          /\ indices = created.indices
          /\ data = created.data
    /\ edits = 0
    /\ rebuilds = 0
    /\ pc = "idle"
    /\ walk = NoWalk
    /\ ret = NoCall

\* ------------------------------------------------- the caller's mutations
\* A reference the engine holds stays on the array it was taken from when the
\* geometry is given another array.
detach(ref, arr) == IF ref.kind = "live" THEN Detached(arr) ELSE ref

\* In place: the caller overwrites the three indices of face k.
EditFace ==
    /\ pc = "idle"
    /\ edits < MaxEdits
    /\ geomIdx.present
    /\ \E k \in 0..(Len(geomIdx.arr) \div 3 - 1), t \in Triangles :
          /\ \A i \in 1..3 : 3 * t[i] < Len(geomPos)
          /\ t # triangle(geomIdx, k)
          /\ geomIdx' = [geomIdx EXCEPT
                            !.arr = [i \in 1..Len(geomIdx.arr) |->
                                        IF (i - 1) \div 3 = k
                                        THEN t[((i - 1) % 3) + 1]
                                        ELSE geomIdx.arr[i]]]
    /\ edits' = edits + 1
    /\ rebuilds' = 0
    /\ UNCHANGED <<geomPos, engine, pc, walk, ret>>

\* In place: the caller moves every vertex (geometry.translate).
MovePositions ==
    /\ pc = "idle"
    /\ edits < MaxEdits
    /\ Len(geomPos) > 0
    /\ geomPos' = [i \in 1..Len(geomPos) |-> 1 - geomPos[i]]
    /\ edits' = edits + 1
    /\ rebuilds' = 0
    /\ UNCHANGED <<geomIdx, engine, pc, walk, ret>>

\* geometry.setIndex(null): the geometry drops its index array.
RemoveIndex ==
    /\ pc = "idle"
    /\ edits < MaxEdits
    /\ geomIdx.present
    /\ geomIdx' = [present |-> FALSE, arr |-> <<>>]
    /\ indices' = detach(indices, geomIdx.arr)
    /\ edits' = edits + 1
    /\ rebuilds' = 0
    /\ UNCHANGED <<geomPos, vertices, data, pc, walk, ret>>

\* ------------------------------------------------------------- update
update(pos, idx) ==
    [ vertices |-> LiveRef,
      indices  |-> IF idx.present THEN LiveRef ELSE NullRef,
      data     |-> updateFrom(pos, idx) ]

Update ==
    /\ pc = "idle"
    /\ rebuilds < MaxRebuilds
    /\ \E next \in {update(geomPos, geomIdx)} :
          /\ vertices' = next.vertices
          /\ indices' = next.indices
          /\ data' = next.data
    /\ edits' = 0
    /\ rebuilds' = rebuilds + 1
    /\ UNCHANGED <<geometry, pc, walk, ret>>

Next == EditFace \/ MovePositions \/ RemoveIndex \/ Update

Spec == Init /\ [][Next]_vars

\* --------------------------------------------------------------- calls
\* A query returns: the call, its arguments and what it returned are recorded.
Returns(op, args, value) ==
    /\ pc = "idle"
    /\ pc' = "done"
    /\ ret' = [op |-> op, args |-> args, status |-> "ok", value |-> value]
    /\ UNCHANGED <<geometry, engine, edits, rebuilds, walk>>

CallGetVertexCount == Returns("getVertexCount", <<>>, getVertexCount)
CallGetFaceCount == Returns("getFaceCount", <<>>, getFaceCount)

CallGetFaceVertices ==
    \E f \in FaceArgs : Returns("getFaceVertices", <<f>>, getFaceVertices(f))
CallGetFaceNeighbors ==
    \E f \in FaceArgs : Returns("getFaceNeighbors", <<f>>, getFaceNeighbors(f))
CallGetFaceEdges ==
    \E f \in FaceArgs : Returns("getFaceEdges", <<f>>, getFaceEdges(f))
CallIsFaceOnBoundary ==
    \E f \in FaceArgs : Returns("isFaceOnBoundary", <<f>>, isFaceOnBoundary(f))
CallWalkAroundFace ==
    \E f \in FaceArgs : Returns("walkAroundFace", <<f>>, walkAroundFace(f))

CallGetEdgeFaces ==
    \E f \in FaceArgs, e \in EdgeArgs :
        Returns("getEdgeFaces", <<f, e>>, getEdgeFaces(f, e))
CallGetEdgeVertices ==
    \E f \in FaceArgs, e \in EdgeArgs :
        Returns("getEdgeVertices", <<f, e>>, getEdgeVertices(f, e))
CallGetOppositeHalfEdge ==
    \E f \in FaceArgs, e \in EdgeArgs :
        Returns("getOppositeHalfEdge", <<f, e>>, getOppositeHalfEdge(f, e))
CallIsEdgeOnBoundary ==
    \E f \in FaceArgs, e \in EdgeArgs :
        Returns("isEdgeOnBoundary", <<f, e>>, isEdgeOnBoundary(f, e))

CallGetVertexIncidentFaces ==
    \E v \in VertexArgs :
        Returns("getVertexIncidentFaces", <<v>>, getVertexIncidentFaces(v))
CallGetVertexNeighbors ==
    \E v \in VertexArgs :
        Returns("getVertexNeighbors", <<v>>, getVertexNeighbors(v))
CallGetVertexIncidentEdges ==
    \E v \in VertexArgs :
        Returns("getVertexIncidentEdges", <<v>>, getVertexIncidentEdges(v))
CallGetVertexValence ==
    \E v \in VertexArgs :
        Returns("getVertexValence", <<v>>, getVertexValence(v))

CallFindShortestPath ==
    \E a \in VertexArgs, b \in VertexArgs :
        Returns("findShortestPath", <<a, b>>, findShortestPath(a, b))

\* ---------------------------------------------------- walkAroundVertex
\* the slot after the vertex instead of the slot before it
nextEdgeOf_forward(vertexPos) == (vertexPos + 1) % 3

nextEdgeOf(vertexPos) == (vertexPos + 2) % 3

\* the test that lets the walk move on to nextFace
walkMovesOn(nextFace, incidentFaces, visited) ==
    /\ nextFace # -1
    /\ includes(incidentFaces, nextFace)
    /\ nextFace \notin visited

WalkReturns(orderedFaces) ==
    /\ pc' = "done"
    /\ ret' = [ret EXCEPT !.status = "ok", !.value = orderedFaces]
    /\ walk' = NoWalk

\* The call up to the loop: the early return, or the loop's initial state.
WalkStart ==
    /\ pc = "idle"
    /\ \E vertexIndex \in VertexArgs, startFaceIndex \in StartFaceArgs :
          LET incidentFaces == getVertexIncidentFaces(vertexIndex)
              call == [ op |-> "walkAroundVertex",
                        args |-> <<vertexIndex, startFaceIndex>>,
                        status |-> "running", value |-> <<>> ]
          IN  IF Len(incidentFaces) = 0
              THEN /\ pc' = "done"
                   /\ ret' = [call EXCEPT !.status = "ok"]
                   /\ walk' = walk
              ELSE /\ pc' = "walk"
                   /\ ret' = call
                   /\ walk' = [ vertexIndex |-> vertexIndex,
                                incidentFaces |-> incidentFaces,
                                visited |-> {},
                                orderedFaces |-> <<>>,
                                currentFace |->
                                    IF startFaceIndex = undefined
                                    THEN incidentFaces[1]
                                    ELSE startFaceIndex ]
    /\ UNCHANGED <<geometry, engine, edits, rebuilds>>

\* One test of the while condition and, when it holds, one loop body.
WalkStep ==
    /\ pc = "walk"
    /\ IF walk.currentFace \in walk.visited
       THEN WalkReturns(walk.orderedFaces)
       ELSE LET visited == walk.visited \cup {walk.currentFace}
                orderedFaces == Append(walk.orderedFaces, walk.currentFace)
                faceVertices == getFaceVertices(walk.currentFace)
                vertexPos == indexOf(faceVertices, walk.vertexIndex)
                nextFace == getSiblingTriangleIndex(walk.currentFace,
                                                    nextEdgeOf(vertexPos))
            IN  IF vertexPos # -1
                   /\ walkMovesOn(nextFace, walk.incidentFaces, visited)
                THEN /\ walk' = [walk EXCEPT !.visited = visited,
                                             !.orderedFaces = orderedFaces,
                                             !.currentFace = nextFace]
                     /\ UNCHANGED <<pc, ret>>
                ELSE WalkReturns(orderedFaces)
    /\ UNCHANGED <<geometry, engine, edits, rebuilds>>

\* The caller takes the result.
Return ==
    /\ pc = "done"
    /\ pc' = "idle"
    /\ ret' = NoCall
    /\ UNCHANGED <<geometry, engine, edits, rebuilds, walk>>

NextCall ==
    \/ CallGetVertexCount \/ CallGetFaceCount
    \/ CallGetFaceVertices \/ CallGetFaceNeighbors \/ CallGetFaceEdges
    \/ CallIsFaceOnBoundary \/ CallWalkAroundFace
    \/ CallGetEdgeFaces \/ CallGetEdgeVertices
    \/ CallGetOppositeHalfEdge \/ CallIsEdgeOnBoundary
    \/ CallGetVertexIncidentFaces \/ CallGetVertexNeighbors
    \/ CallGetVertexIncidentEdges \/ CallGetVertexValence
    \/ CallFindShortestPath
    \/ WalkStart \/ WalkStep \/ Return

\* Every operation is synchronous: a started walk runs its loop to the end.
SpecCall == Init /\ [][NextCall]_vars /\ WF_vars(WalkStep)

\* ------------------------------------------------------ argument ranges
ValidFace(f) == f >= 0 /\ Below(f, getFaceCount)
ValidEdge(e) == e \in 0..2
ValidVertex(v) == v >= 0 /\ Below(v, getVertexCount)

NoDuplicates(s) == \A i, j \in 1..Len(s) : i # j => s[i] # s[j]

FaceQueries ==
    { "getFaceVertices", "getFaceNeighbors", "getFaceEdges",
      "isFaceOnBoundary", "walkAroundFace" }
EdgeQueries ==
    { "getEdgeFaces", "getEdgeVertices", "getOppositeHalfEdge",
      "isEdgeOnBoundary" }
VertexQueries ==
    { "getVertexIncidentFaces", "getVertexNeighbors",
      "getVertexIncidentEdges", "getVertexValence" }

\* the recorded call was given an index outside its valid range
OutOfRangeCall ==
    \/ ret.op \in FaceQueries /\ ~ValidFace(ret.args[1])
    \/ ret.op \in EdgeQueries
          /\ (~ValidFace(ret.args[1]) \/ ~ValidEdge(ret.args[2]))
    \/ ret.op \in VertexQueries /\ ~ValidVertex(ret.args[1])

\* C1: a query given a face index, edge slot or vertex index outside its
\* valid range fails with IndexOutOfRange.
C1_OutOfRangeFails ==
    (pc = "done" /\ OutOfRangeCall) => ret.status = "IndexOutOfRange"

\* ------------------------------------------------------------------ C2
\* the vertices getVertexNeighbors lists for u
Adjacent(u) == { getVertexNeighbors(u)[i] : i \in 1..Len(getVertexNeighbors(u)) }

\* the vertices at most k edges away from a
RECURSIVE Within(_, _)
Within(a, k) ==
    IF k = 0 THEN {a}
    ELSE LET near == Within(a, k - 1)
         IN  near \cup UNION { Adjacent(u) : u \in near }

Hops == 0..(MaxVerts + 2)
Reachable(a, b) == \E k \in Hops : b \in Within(a, k)
Distance(a, b) ==
    CHOOSE k \in Hops : b \in Within(a, k) /\ \A j \in 0..(k - 1) : b \notin Within(a, j)

IsPath(p, a, b) ==
    /\ Len(p) >= 1
    /\ p[1] = a
    /\ p[Len(p)] = b
    /\ \A i \in 1..(Len(p) - 1) : p[i + 1] \in Adjacent(p[i])

\* C2: for valid vertices a and b, findShortestPath(a, b) returns a path
\* from a to b along vertexNeighbors with the least possible number of edges,
\* and returns none exactly when b cannot be reached from a.
C2_ShortestPath ==
    ( /\ pc = "done"
      /\ ret.op = "findShortestPath"
      /\ ValidVertex(ret.args[1])
      /\ ValidVertex(ret.args[2]) )
    => LET a == ret.args[1]
           b == ret.args[2]
       IN  IF ret.value = null
           THEN ~Reachable(a, b)
           ELSE /\ Reachable(a, b)
                /\ IsPath(ret.value[1], a, b)
                /\ Len(ret.value[1]) - 1 = Distance(a, b)

\* a path of two edges was returned
C2_Witness ==
    /\ pc = "done"
    /\ ret.op = "findShortestPath"
    /\ ValidVertex(ret.args[1])
    /\ ValidVertex(ret.args[2])
    /\ ret.value # null
    /\ Len(ret.value[1]) = 3

\* ------------------------------------------------------------------ C6
\* C6: vertexCount and faceCount are non-negative integers, and for every
\* valid face index, in the indexed and in the non-indexed layout,
\* faceVertexIndices returns exactly 3 vertex indices, each < vertexCount.
C6_FaceVerticesInRange ==
    pc = "done" =>
        /\ ret.op \in {"getVertexCount", "getFaceCount"} =>
              IsInteger(ret.value) /\ ret.value[1] >= 0
        /\ (ret.op = "getFaceVertices" /\ ValidFace(ret.args[1])) =>
              /\ Len(ret.value) = 3
              /\ \A i \in 1..3 : ValidVertex(ret.value[i])

\* ------------------------------------------------------------ C7, C9
\* the walk recorded in ret, its vertex, and where the vertex sits in a face
walked == ret.value
walkedVertex == ret.args[1]
positionIn(face) == indexOf(getFaceVertices(face), walkedVertex)
acrossFrom(face) == getSiblingTriangleIndex(face, (positionIn(face) + 2) % 3)

WalkIsChain ==
    /\ NoDuplicates(walked)
    /\ (walked = <<>>) <=> (getVertexIncidentFaces(walkedVertex) = <<>>)
    /\ \A i \in 1..(Len(walked) - 1) :
          /\ positionIn(walked[i]) # -1
          /\ walked[i + 1] = acrossFrom(walked[i])
    /\ walked # <<>> =>
          LET last == walked[Len(walked)]
          IN  \/ positionIn(last) = -1
              \/ acrossFrom(last) = -1
              \/ ~includes(getVertexIncidentFaces(walkedVertex), acrossFrom(last))
              \/ includes(walked, acrossFrom(last))

\* C7: walkAroundVertex terminates on every mesh; the list it returns holds
\* no face twice, each face after the first is the sibling of its predecessor
\* across the predecessor's slot (p + 2) mod 3, and the walk ends at the first
\* next face that is boundary, not incident or already visited.
C7_WalkTerminates ==
    /\ []((pc = "done" /\ ret.op = "walkAroundVertex") => WalkIsChain)
    /\ []((pc = "walk") => Cardinality(walk.visited) = Len(walk.orderedFaces))
    /\ ((pc = "walk") ~> (pc = "done"))

\* a walk went all the way round a closed fan of three faces
C7_Witness ==
    /\ pc = "done"
    /\ ret.op = "walkAroundVertex"
    /\ Len(walked) = 3
    /\ acrossFrom(walked[3]) = walked[1]

\* C9: every face walkAroundVertex returns for a valid vertex, with the start
\* face given or defaulted, is incident to the vertex.
C9_WalkFacesIncident ==
    ( /\ pc = "done"
      /\ ret.op = "walkAroundVertex"
      /\ IsInteger(getFaceCount)
      /\ ValidVertex(walkedVertex)
      /\ (ret.args[2] = undefined \/ ValidFace(ret.args[2])) )
    => \A i \in 1..Len(walked) :
          includes(getVertexIncidentFaces(walkedVertex), walked[i])

\* ----------------------------------------------------------------- C10
\* C10: for a valid vertex of a mesh whose indices are all < vertexCount,
\* vertexNeighbors has no duplicates and does not contain the vertex itself.
C10_NeighborsAreOthers ==
    ( /\ pc = "done"
      /\ ret.op = "getVertexNeighbors"
      /\ ValidVertex(ret.args[1])
      /\ indices.kind # "null" )
    => /\ NoDuplicates(ret.value)
       /\ ~includes(ret.value, ret.args[1])

\* ------------------------------------------------------------ C3, C8
ValidHalfEdges ==
    { h \in FaceArgs \X EdgeArgs : ValidFace(h[1]) /\ ValidEdge(h[2]) }

\* the faces with an edge between the same two vertices as half-edge h
facesOnEdgeOf(h) ==
    { g[1] : g \in { x \in DOMAIN data :
                        edgeKey(geomIdx, x) = edgeKey(geomIdx, h) } }

\* C3: sibling pairing is symmetric: whenever oppositeHalfEdge(f, e) is a
\* descriptor (g, d), oppositeHalfEdge(g, d) is (f, e).
C3_SiblingSymmetric ==
    \A h \in ValidHalfEdges :
        LET opposite == getOppositeHalfEdge(h[1], h[2])
        IN  opposite # null =>
                getOppositeHalfEdge(opposite[1][1], opposite[1][2]) = Some(h)

\* a rebuilt table of a mesh with an edge shared by three faces, one of them
\* paired across it and one left without a sibling
C3_Witness ==
    /\ rebuilds >= 1
    /\ \E h \in DOMAIN data, k \in DOMAIN data :
          /\ Cardinality(facesOnEdgeOf(h)) = 3
          /\ edgeKey(geomIdx, k) = edgeKey(geomIdx, h)
          /\ getOppositeHalfEdge(h[1], h[2]) # null
          /\ getOppositeHalfEdge(h[1], h[2])[1][2] # h[2]
          /\ getOppositeHalfEdge(k[1], k[2]) = null

\* C8: for every valid half-edge, after construction and after any number of
\* rebuilds, isEdgeOnBoundary is true exactly when oppositeHalfEdge is none.
C8_BoundaryIffNoOpposite ==
    \A h \in ValidHalfEdges :
        isEdgeOnBoundary(h[1], h[2]) <=> (getOppositeHalfEdge(h[1], h[2]) = null)

\* a table rebuilt after a mutation, with a boundary edge and an interior edge
C8_Witness ==
    /\ rebuilds >= 1
    /\ \E h \in ValidHalfEdges, k \in ValidHalfEdges :
          /\ isEdgeOnBoundary(h[1], h[2])
          /\ ~isEdgeOnBoundary(k[1], k[2])

\* ------------------------------------------------------------------ C5
\* The queries answered from the adjacency table, and the queries answered
\* from the buffers the engine refers to; the remaining queries
\* (getVertexNeighbors, getVertexIncidentEdges, getVertexValence and the
\* traversals) are computed from these alone.
TableQueriesAgree ==
    \A f \in FaceArgs :
        /\ getFaceNeighbors(f)' = getFaceNeighbors(f)
        /\ isFaceOnBoundary(f)' = isFaceOnBoundary(f)
        /\ walkAroundFace(f)' = walkAroundFace(f)
        /\ \A e \in EdgeArgs :
              /\ getEdgeFaces(f, e)' = getEdgeFaces(f, e)
              /\ getOppositeHalfEdge(f, e)' = getOppositeHalfEdge(f, e)
              /\ isEdgeOnBoundary(f, e)' = isEdgeOnBoundary(f, e)

BufferQueriesAgree ==
    /\ \A f \in FaceArgs :
          /\ getFaceVertices(f)' = getFaceVertices(f)
          /\ \A e \in EdgeArgs : getEdgeVertices(f, e)' = getEdgeVertices(f, e)
    /\ \A v \in VertexArgs :
          getVertexIncidentFaces(v)' = getVertexIncidentFaces(v)

CountsAgree ==
    /\ getVertexCount' = getVertexCount
    /\ getFaceCount' = getFaceCount

\* C5: a rebuild of an unchanged snapshot leaves the adjacency table, and so
\* every query result, as it was.
CleanRebuild == edits = 0 /\ rebuilds' = rebuilds + 1 /\ Update

InPlaceMutation ==
    /\ edits' = edits + 1
    /\ geomIdx'.present = geomIdx.present

\* C4 as stated: after an in-place mutation without rebuild every query
\* still returns what it returned before the mutation.
C4_QueriesKeepOldMesh ==
    [][InPlaceMutation =>
          /\ TableQueriesAgree
          /\ BufferQueriesAgree
          /\ CountsAgree]_vars

\* C4 amended: after an in-place mutation without rebuild the queries answered
\* from the adjacency table, and the counts, return what they returned before;
\* the queries answered from the index buffer return the mutated buffer's
\* contents, next to the old table.
C4_TableOldBufferLive ==
    [][InPlaceMutation =>
          /\ data' = data
          /\ TableQueriesAgree
          /\ CountsAgree
          /\ \A f \in FaceArgs :
                (ValidFace(f) /\ geomIdx'.present) =>
                    getFaceVertices(f)' = triangle(geomIdx', f)]_vars

\* an edited index buffer is read next to a table built before the edit
C4_Witness ==
    /\ edits >= 1
    /\ indices.kind = "live"
    /\ data # updateFrom(geomPos, geomIdx)
    /\ \E f \in FaceArgs :
          ValidFace(f) /\ getFaceVertices(f) = triangle(geomIdx, f)

====
